---- MODULE Spec2Model ----
(***************************************************************************)
(* Model of scripts/check_udf_registration.py: the static checker that     *)
(* verifies every ScalarUDFImpl / AggregateUDFImpl implementation under    *)
(* rust/geodatafusion/src/udf is registered in rust/geodatafusion/src/     *)
(* lib.rs.                                                                 *)
(*                                                                         *)
(* A file text is a sequence of lexical items.  Each item is the smallest  *)
(* piece of text one of the script's regular expressions or string         *)
(* searches looks at: a newline, a run of blanks, the markers "/*", "*/"   *)
(* and "//", the attribute "#[allow(dead_code)]", a struct definition      *)
(* "<vis> struct <Name>", an implementation declaration                    *)
(* "impl <Trait> for <Name>", a registration call, or other text.          *)
(***************************************************************************)
EXTENDS Integers, Sequences, FiniteSets

\* ------------------------------------------------------------------ bounds
MaxFiles == 2
MaxCommentLen == 5
MaxDefLen == 5

Names == {"Foo", "Bar"}

\* ------------------------------------------------------------ lexical items
Tok(t, q, name) == [t |-> t, q |-> q, name |-> name]

NL == Tok("nl", "", "")
WS == Tok("ws", "", "")
OPEN == Tok("/*", "", "")
CLOSE == Tok("*/", "", "")
LC == Tok("//", "", "")
TXT == Tok("text", "", "")
ALLOW == Tok("#[allow(dead_code)]", "", "")

\* "impl <trait> for <name>"
Impl(trait, name) == Tok("impl", trait, name)

\* "<vis> struct <name>", vis one of "", "pub", "pub(super)", "pub(crate)"
Struct(vis, name) == Tok("struct", vis, name)

\* "<fn>(crate::udf::<path><name>::default().into())"; path is "" or ends "::"
Reg(fn, path, name) == Tok(fn, path, name)

\* ------------------------------------------------------- regular expressions
SCALAR_UDF_PATTERN(tok) == tok.t = "impl" /\ tok.q = "ScalarUDFImpl"

AGGREGATE_UDF_PATTERN(tok) == tok.t = "impl" /\ tok.q = "AggregateUDFImpl"

\* [^)]+:: needs at least one character of module path before the name
REGISTRATION_PATTERN(tok) == tok.t = "register_udf" /\ tok.q # ""

REGISTRATION_UDAF_PATTERN(tok) == tok.t = "register_udaf" /\ tok.q # ""

\* \bstruct\s+{struct_name}\b
struct_pattern(tok, struct_name) == tok.t = "struct" /\ tok.name = struct_name

\* ------------------------------------------------------------ string helpers
\* content.rfind('\n', 0, position), 1-based: 0 when there is none
RECURSIVE rfind_newline(_, _)
rfind_newline(content, position) ==
    IF position <= 1 THEN 0
    ELSE IF content[position - 1] = NL THEN position - 1
    ELSE rfind_newline(content, position - 1)

\* content.count(marker, 0, position)
RECURSIVE count_before(_, _, _)
count_before(content, marker, position) ==
    IF position <= 1 THEN 0
    ELSE (IF content[position - 1] = marker THEN 1 ELSE 0)
         + count_before(content, marker, position - 1)

\* str.strip(): leading blanks removed (trailing ones do not matter to startswith)
RECURSIVE strip(_)
strip(s) ==
    IF s # <<>> /\ Head(s) = WS THEN strip(Tail(s)) ELSE s

startswith_line_comment(s) == s # <<>> /\ Head(s) = LC

\* ------------------------------------------------------- exclusion filters
\* variant: only the line-comment test, no block-comment count
is_commented_out_line_only(content, position) ==
    LET line_start == rfind_newline(content, position) + 1
        line_content == SubSeq(content, line_start, position - 1)
    IN  startswith_line_comment(strip(line_content))

is_commented_out(content, position) ==
    LET line_start == rfind_newline(content, position) + 1
        line_content == SubSeq(content, line_start, position - 1)
        block_comments_before == count_before(content, OPEN, position)
        block_comments_after == count_before(content, CLOSE, position)
    IN  \/ startswith_line_comment(strip(line_content))
        \/ block_comments_before > block_comments_after

\* variant: only the same-line pattern, no multi_line_pattern
has_allow_dead_code_same_line(content, struct_name) ==
    \E m, q \in DOMAIN content :
        /\ m < q
        /\ content[m] = ALLOW
        /\ struct_pattern(content[q], struct_name)
        /\ \A k \in (m + 1)..(q - 1) : content[k] # NL

has_allow_dead_code(content, struct_name) ==
    LET pattern ==
            \E m, q \in DOMAIN content :
                /\ m < q
                /\ content[m] = ALLOW
                /\ struct_pattern(content[q], struct_name)
                /\ \A k \in (m + 1)..(q - 1) : content[k] # NL
        multi_line_pattern ==
            \E m, j, q \in DOMAIN content :
                /\ m < j /\ j < q
                /\ content[m] = ALLOW
                /\ content[j] = NL
                /\ struct_pattern(content[q], struct_name)
                /\ \A k \in (m + 1)..(j - 1) : content[k] # NL
                /\ \A k \in (j + 1)..(q - 1) : content[k] # NL
    IN  pattern \/ multi_line_pattern

\* variant: pub_crate_pattern is not consulted
is_pub_super_only_no_crate(content, struct_name) ==
    LET search(vis) ==
            \E q \in DOMAIN content :
                struct_pattern(content[q], struct_name) /\ content[q].q = vis
    IN  search("pub(super)") /\ ~search("pub")

\* variant: pub_super_pattern written with the wrong qualifier
is_pub_super_only_wrong_qualifier(content, struct_name) ==
    LET search(vis) ==
            \E q \in DOMAIN content :
                struct_pattern(content[q], struct_name) /\ content[q].q = vis
    IN  search("super") /\ ~search("pub") /\ ~search("pub(crate)")

is_pub_super_only(content, struct_name) ==
    LET search(vis) ==
            \E q \in DOMAIN content :
                struct_pattern(content[q], struct_name) /\ content[q].q = vis
        pub_super_pattern == search("pub(super)")
        pub_pattern == search("pub")
        pub_crate_pattern == search("pub(crate)")
    IN  pub_super_pattern /\ ~pub_pattern /\ ~pub_crate_pattern

\* the two nested conditions guarding udf_implementations.add(struct_name)
admits(content, position) ==
    /\ ~is_commented_out(content, position)
    /\ ~has_allow_dead_code(content, content[position].name)
    /\ ~is_pub_super_only(content, content[position].name)

\* variant: the aggregate loop is missing
names_found_scalar_only(content) ==
    { content[p].name : p \in { i \in DOMAIN content :
                                  /\ SCALAR_UDF_PATTERN(content[i])
                                  /\ admits(content, i) } }

\* names one file adds: both finditer loops of the loop body
names_found(content) ==
    { content[p].name : p \in { i \in DOMAIN content :
                                  /\ SCALAR_UDF_PATTERN(content[i])
                                  /\ admits(content, i) } }
    \cup
    { content[p].name : p \in { i \in DOMAIN content :
                                  /\ AGGREGATE_UDF_PATTERN(content[i])
                                  /\ admits(content, i) } }

\* variant: the set is created inside the loop, once per file
add_all_reset(acc, found) == found

\* udf_implementations.add(...) into the set created once before the loop
add_all(acc, found) == acc \cup found

\* variant: the register_udaf loop is missing
registered_names_udf_only(content) ==
    { content[p].name : p \in { i \in DOMAIN content :
                                  REGISTRATION_PATTERN(content[i]) } }

\* registered_udfs of a readable lib.rs
registered_names(content) ==
    { content[p].name : p \in { i \in DOMAIN content :
                                  REGISTRATION_PATTERN(content[i]) } }
    \cup
    { content[p].name : p \in { i \in DOMAIN content :
                                  REGISTRATION_UDAF_PATTERN(content[i]) } }

\* variant: symmetric difference
set_difference_symmetric(a, b) == (a \ b) \cup (b \ a)

\* udf_implementations - registered_udfs
set_difference(a, b) == a \ b

\* --------------------------------------------------------------------- state
VARIABLES
    root_exists,          \* rust/geodatafusion/src/udf is a directory
    files,                \* the *.rs files under it: <<[content, readable]>>
    lib,                  \* lib.rs: [state, content]
    pc,                   \* position of main()
    todo,                 \* files rglob has not yielded yet
    udf_implementations,
    registered_udfs,
    missing_udfs,
    out,                  \* lines printed so far
    exit_code             \* -1 while running

vars == <<root_exists, files, lib, pc, todo, udf_implementations,
          registered_udfs, missing_udfs, out, exit_code>>

inputs == <<root_exists, files, lib>>

\* -------------------------------------------------------------------- inputs
BoundedSeq(S, n) == UNION { [1..k -> S] : k \in 0..n }

CommentAlphabet == {NL, WS, OPEN, CLOSE, LC, TXT, Impl("ScalarUDFImpl", "Foo")}

DefAlphabet == {NL, ALLOW, Struct("", "Foo"), Struct("pub(super)", "Foo"),
                Struct("pub", "Foo"), Struct("pub(crate)", "Foo"),
                Impl("AggregateUDFImpl", "Foo")}

ModuleTexts ==
    { <<>>,
      <<Impl("ScalarUDFImpl", "Foo")>>,
      <<Impl("AggregateUDFImpl", "Foo")>>,
      <<Impl("ScalarUDFImpl", "Bar")>>,
      <<Struct("pub(super)", "Foo")>>,
      <<Struct("pub(super)", "Bar"), NL, Impl("ScalarUDFImpl", "Bar")>>,
      <<Struct("pub", "Foo"), NL, Impl("ScalarUDFImpl", "Foo"), NL,
        Struct("pub(super)", "Bar"), NL, Impl("ScalarUDFImpl", "Bar")>>,
      <<Struct("pub(crate)", "Bar"), NL, Impl("ScalarUDFImpl", "Bar")>>,
      <<Struct("pub(super)", "Foo"), Struct("pub(crate)", "Foo"), NL,
        Impl("ScalarUDFImpl", "Foo")>>,
      <<ALLOW, NL, Struct("", "Foo")>>,
      <<ALLOW, Struct("pub", "Bar"), NL, Impl("AggregateUDFImpl", "Bar")>> }

LibTexts ==
    { <<>>,
      <<Reg("register_udf", "geom::", "Foo")>>,
      <<Reg("register_udaf", "native::accessors::", "Foo")>>,
      <<Reg("register_udf", "", "Foo")>>,
      <<Reg("register_udaf", "geom::", "Bar")>>,
      <<Reg("register_udf", "geom::", "Foo"), NL,
        Reg("register_udf", "geom::", "Bar")>> }

File(content, readable) == [content |-> content, readable |-> readable]

Lib(state, content) == [state |-> state, content |-> content]

\* one readable file of comment markers around an implementation
InitComments ==
    /\ root_exists = TRUE
    /\ \E c \in BoundedSeq(CommentAlphabet, MaxCommentLen) :
           files = <<File(c, TRUE)>>
    /\ \E l \in {<<>>, <<Reg("register_udf", "geom::", "Foo")>>} :
           lib = Lib("ok", l)

\* one readable file of definitions, attributes and an implementation
InitDefinitions ==
    /\ root_exists = TRUE
    /\ \E c \in BoundedSeq(DefAlphabet, MaxDefLen) :
           files = <<File(c, TRUE)>>
    /\ lib = Lib("ok", <<>>)

\* a source tree of modules, possibly missing or with an unreadable file
InitTree ==
    /\ \/ root_exists = FALSE /\ files = <<>>
       \/ /\ root_exists = TRUE
          /\ \E n \in 0..MaxFiles :
               \E cs \in [1..n -> ModuleTexts] :
                 \E bad \in 0..n :
                   files = [i \in 1..n |-> File(cs[i], i # bad)]
    /\ \/ lib = Lib("absent", <<>>)
       \/ \E l \in LibTexts : \E s \in {"ok", "undecodable"} : lib = Lib(s, l)

Init ==
    /\ InitComments \/ InitDefinitions \/ InitTree
    /\ pc = "main"
    /\ todo = {}
    /\ udf_implementations = {}
    /\ registered_udfs = {}
    /\ missing_udfs = {}
    /\ out = <<>>
    /\ exit_code = -1

\* ------------------------------------------------------------------- actions
Printed(line, names) == [line |-> line, names |-> names]

\* main() up to the first iteration of rglob: a missing directory yields nothing
Start ==
    /\ pc = "main"
    /\ out' = Append(out, Printed("Checking UDF registration", {}))
    /\ todo' = IF root_exists THEN DOMAIN files ELSE {}
    /\ pc' = "scan"
    /\ UNCHANGED <<inputs, udf_implementations, registered_udfs,
                   missing_udfs, exit_code>>

\* one iteration of "for rust_file in udf_dir.rglob(...)", in any order
ScanFile(f) ==
    /\ pc = "scan"
    /\ f \in todo
    /\ files[f].readable
    /\ udf_implementations' =
           add_all(udf_implementations, names_found(files[f].content))
    /\ todo' = todo \ {f}
    /\ UNCHANGED <<inputs, pc, registered_udfs, missing_udfs, out, exit_code>>

\* rust_file.read_text() raises: uncaught, the interpreter exits with 1
ScanFileReadError(f) ==
    /\ pc = "scan"
    /\ f \in todo
    /\ ~files[f].readable
    /\ out' = Append(out, Printed("Traceback", {}))
    /\ exit_code' = 1
    /\ pc' = "done"
    /\ UNCHANGED <<inputs, todo, udf_implementations, registered_udfs,
                   missing_udfs>>

\* find_udf_implementations returns; main prints the candidates
ReportImplementations ==
    /\ pc = "scan"
    /\ todo = {}
    /\ out' = Append(out, Printed("Found UDF implementations",
                                udf_implementations))
    /\ pc' = "find_registered_udfs"
    /\ UNCHANGED <<inputs, todo, udf_implementations, registered_udfs,
                   missing_udfs, exit_code>>

\* find_registered_udfs: lib.rs does not exist
FindRegisteredNotFound ==
    /\ pc = "find_registered_udfs"
    /\ lib.state = "absent"
    /\ out' = Append(out, Printed("Error: lib.rs not found", {}))
    /\ exit_code' = 1
    /\ pc' = "done"
    /\ UNCHANGED <<inputs, todo, udf_implementations, registered_udfs,
                   missing_udfs>>

\* find_registered_udfs: LIB_RS_PATH.read_text() raises
FindRegisteredReadError ==
    /\ pc = "find_registered_udfs"
    /\ lib.state = "undecodable"
    /\ out' = Append(out, Printed("Traceback", {}))
    /\ exit_code' = 1
    /\ pc' = "done"
    /\ UNCHANGED <<inputs, todo, udf_implementations, registered_udfs,
                   missing_udfs>>

\* find_registered_udfs returns; main prints the registered names
FindRegistered ==
    /\ pc = "find_registered_udfs"
    /\ lib.state = "ok"
    /\ registered_udfs' = registered_names(lib.content)
    /\ out' = Append(out, Printed("Found registered UDFs", registered_udfs'))
    /\ pc' = "verify"
    /\ UNCHANGED <<inputs, todo, udf_implementations, missing_udfs, exit_code>>

\* missing registrations: report them, sys.exit(1)
VerifyError ==
    /\ pc = "verify"
    /\ missing_udfs' = set_difference(udf_implementations, registered_udfs)
    /\ missing_udfs' # {}
    /\ out' = Append(out, Printed("ERROR: not registered in mount",
                                missing_udfs'))
    /\ exit_code' = 1
    /\ pc' = "done"
    /\ UNCHANGED <<inputs, todo, udf_implementations, registered_udfs>>

\* nothing missing: sys.exit(0)
VerifySuccess ==
    /\ pc = "verify"
    /\ missing_udfs' = set_difference(udf_implementations, registered_udfs)
    /\ missing_udfs' = {}
    /\ out' = Append(out, Printed("SUCCESS", {}))
    /\ exit_code' = 0
    /\ pc' = "done"
    /\ UNCHANGED <<inputs, todo, udf_implementations, registered_udfs>>

Next ==
    \/ Start
    \/ \E f \in todo : ScanFile(f)
    \/ \E f \in todo : ScanFileReadError(f)
    \/ ReportImplementations
    \/ FindRegisteredNotFound
    \/ FindRegisteredReadError
    \/ FindRegistered
    \/ VerifyError
    \/ VerifySuccess

Spec == Init /\ [][Next]_vars

TypeOK ==
    /\ pc \in {"main", "scan", "find_registered_udfs", "verify", "done"}
    /\ udf_implementations \subseteq Names
    /\ registered_udfs \subseteq Names
    /\ missing_udfs \subseteq Names
    /\ exit_code \in {-1, 0, 1}

\* ------------------------------------------- vocabulary of the properties
HasLine(l) == \E i \in DOMAIN out : out[i].line = l

\* the run computed candidates - registered and exited through sys.exit
Verified == HasLine("ERROR: not registered in mount") \/ HasLine("SUCCESS")

\* files whose loop iteration has completed
Scanned ==
    IF pc = "main" \/ ~root_exists THEN {} ELSE (DOMAIN files) \ todo

AllReadable == \A f \in DOMAIN files : files[f].readable

IsImpl(tok) ==
    tok.t = "impl" /\ tok.q \in {"ScalarUDFImpl", "AggregateUDFImpl"}

\* positions of the implementation declarations for name n in text c
ImplsOf(c, n) == { p \in DOMAIN c : IsImpl(c[p]) /\ c[p].name = n }

\* 0-based number of the line that holds position i
LineOf(c, i) == Cardinality({ k \in 1..(i - 1) : c[k] = NL })

\* a "struct n" with the marker earlier on its line or on the line above
MarkerAdjacent(c, n) ==
    \E m, q \in DOMAIN c :
        /\ m < q
        /\ c[m] = ALLOW
        /\ c[q].t = "struct" /\ c[q].name = n
        /\ LineOf(c, q) - LineOf(c, m) <= 1

\* a "struct n" whose nearest markers are two or more lines above it
MarkerFarAbove(c, n) ==
    /\ \E m, q \in DOMAIN c :
        /\ m < q
        /\ c[m] = ALLOW
        /\ c[q].t = "struct" /\ c[q].name = n
        /\ LineOf(c, q) - LineOf(c, m) >= 2
    /\ ~MarkerAdjacent(c, n)

HasDef(c, n, vis) == \E q \in DOMAIN c : c[q] = Struct(vis, n)

\* pub(super) struct n in c, and neither pub struct n nor pub(crate) struct n
ModuleLocalOnly(c, n) ==
    /\ HasDef(c, n, "pub(super)")
    /\ ~HasDef(c, n, "pub")
    /\ ~HasDef(c, n, "pub(crate)")

\* the first item of p's line that is not blank is "//", and it precedes p
LineCommented(c, p) ==
    \E s \in 1..(p - 1) :
        /\ c[s] = LC
        /\ LineOf(c, s) = LineOf(c, p)
        /\ \A k \in 1..(s - 1) : LineOf(c, k) = LineOf(c, s) => c[k] = WS

Opens(c, p) == Cardinality({ k \in 1..(p - 1) : c[k] = OPEN })

Closes(c, p) == Cardinality({ k \in 1..(p - 1) : c[k] = CLOSE })

\* the comment heuristic of the specification
CommentExcluded(c, p) == LineCommented(c, p) \/ Opens(c, p) > Closes(c, p)

\* p lies after a "/*" that is still open at p and before a later "*/"
Enclosed(c, p) ==
    \E i, j \in DOMAIN c :
        /\ i < p /\ p < j
        /\ c[i] = OPEN
        /\ c[j] = CLOSE
        /\ \A k \in (i + 1)..(p - 1) : c[k] # CLOSE

\* up to p, the "*/" seen so far never outnumber the "/*" seen so far
NoStrayClose(c, p) == \A k \in 1..p : Closes(c, k) <= Opens(c, k)

\* a registration call of either form that the patterns capture
Captured(tok) ==
    tok.t \in {"register_udf", "register_udaf"} /\ tok.q # ""

CapturedNames ==
    IF lib.state = "absent" THEN {}
    ELSE { n \in Names : \E i \in DOMAIN lib.content :
                            Captured(lib.content[i]) /\ lib.content[i].name = n }

\* names with a declaration that survives the three filters in its own file
SurvivingNames ==
    { n \in Names :
        \E f \in DOMAIN files : \E p \in ImplsOf(files[f].content, n) :
            /\ ~CommentExcluded(files[f].content, p)
            /\ ~MarkerAdjacent(files[f].content, n)
            /\ ~ModuleLocalOnly(files[f].content, n) }

\* ------------------------------------------------------------------ claims

\* C1: when lib.rs does not exist, no run prints the candidate report or the
\* registered report at any point.
C1_NoReportWhenLibMissing ==
    lib.state = "absent" =>
        /\ ~HasLine("Found UDF implementations")
        /\ ~HasLine("Found registered UDFs")

\* C2 (as stated): a finished run, lib.rs present or absent and every file
\* that exists readable, exits with 1 exactly when candidates minus
\* registered is non-empty and with 0 exactly when it is empty.
C2_ExitIffMissing ==
    (pc = "done" /\ AllReadable /\ lib.state # "undecodable") =>
        /\ exit_code = 1 <=> (SurvivingNames \ CapturedNames) # {}
        /\ exit_code = 0 <=> (SurvivingNames \ CapturedNames) = {}

\* C2 (amended): a finished run that read every source file and lib.rs exits
\* with 1 exactly when candidates minus registered is non-empty and with 0
\* exactly when it is empty; a finished run that could not read lib.rs or a
\* source file exits with 1 whatever that set is.
C2_ExitCode ==
    pc = "done" =>
        IF lib.state = "ok" /\ AllReadable
        THEN /\ exit_code = 1 <=> (SurvivingNames \ CapturedNames) # {}
             /\ exit_code = 0 <=> (SurvivingNames \ CapturedNames) = {}
             /\ missing_udfs = SurvivingNames \ CapturedNames
        ELSE exit_code = 1

\* a run without lib.rs and without candidates has ended with exit code 1
C2_Witness ==
    /\ pc = "done"
    /\ lib.state = "absent"
    /\ SurvivingNames = {}
    /\ exit_code = 1

\* C3: when the implementation root does not exist the run never prints a
\* candidate report and never exits with 0.
C3_MissingRootFails ==
    ~root_exists =>
        /\ ~HasLine("Found UDF implementations")
        /\ exit_code # 0

\* C4 (as stated): in a run that reached the verdict, a declared name with no
\* pub / pub(crate) definition, no suppression marker, a declaration outside
\* comments and no registration is in the missing set and the exit code is 1.
C4_UnregisteredIsMissing ==
    Verified =>
        \A f \in DOMAIN files : \A n \in Names :
            \A p \in ImplsOf(files[f].content, n) :
                ( /\ ~HasDef(files[f].content, n, "pub")
                  /\ ~HasDef(files[f].content, n, "pub(crate)")
                  /\ ~MarkerAdjacent(files[f].content, n)
                  /\ ~CommentExcluded(files[f].content, p)
                  /\ n \notin CapturedNames )
                => (n \in missing_udfs /\ exit_code = 1)

\* C4 (amended): in a run that reached the verdict, a declared name that is
\* not module-local-only in the declaration's file (no pub(super) definition
\* there, or also a pub / pub(crate) one), has no suppression marker there,
\* whose declaration the comment heuristic does not exclude and that is not
\* registered, is in the missing set and the exit code is 1.
C4_AdmissibleUnregisteredIsMissing ==
    Verified =>
        \A f \in DOMAIN files : \A n \in Names :
            \A p \in ImplsOf(files[f].content, n) :
                ( /\ ~ModuleLocalOnly(files[f].content, n)
                  /\ ~MarkerAdjacent(files[f].content, n)
                  /\ ~CommentExcluded(files[f].content, p)
                  /\ n \notin CapturedNames )
                => (n \in missing_udfs /\ exit_code = 1)

\* a file defines the name both pub(super) and pub(crate), declares it, and
\* the unregistered name was reported missing
C4_Witness ==
    /\ Verified
    /\ \E f \in DOMAIN files : \E n \in Names :
        /\ HasDef(files[f].content, n, "pub(super)")
        /\ HasDef(files[f].content, n, "pub(crate)")
        /\ ImplsOf(files[f].content, n) # {}
        /\ n \in missing_udfs
        /\ exit_code = 1

\* C5 (as stated): a name whose every implementation declaration lies between
\* a "/*" and a later "*/" is never added to the candidate set, whatever
\* markers occur earlier in the file.
C5_EnclosedNeverAdded ==
    \A n \in Names :
        (\A f \in DOMAIN files : \A p \in ImplsOf(files[f].content, n) :
            Enclosed(files[f].content, p))
        => n \notin udf_implementations

\* C5 (amended): a name whose every implementation declaration lies between
\* a "/*" and a later "*/", with no "*/" earlier in the file left without a
\* "/*" before it, is never added to the candidate set.
C5_EnclosedBalancedNeverAdded ==
    \A n \in Names :
        (\A f \in DOMAIN files : \A p \in ImplsOf(files[f].content, n) :
            Enclosed(files[f].content, p) /\ NoStrayClose(files[f].content, p))
        => n \notin udf_implementations

\* a scanned file holds a declaration inside a closed block comment that
\* follows an earlier, complete block comment; nothing was added
C5_Witness ==
    /\ pc = "done"
    /\ \E f \in Scanned : \E n \in Names :
        \E p \in ImplsOf(files[f].content, n) :
            /\ Enclosed(files[f].content, p)
            /\ NoStrayClose(files[f].content, p)
            /\ Closes(files[f].content, p) > 0
            /\ n \notin udf_implementations

\* every definition of n, in every file, is a pub(super) one, and there is one
OnlyModuleLocalDefs(n) ==
    /\ \E f \in DOMAIN files : HasDef(files[f].content, n, "pub(super)")
    /\ \A f \in DOMAIN files : \A q \in DOMAIN files[f].content :
           (files[f].content[q].t = "struct" /\ files[f].content[q].name = n)
           => files[f].content[q].q = "pub(super)"

\* C6 (as stated): a declared name whose only definitions are pub(super) is
\* never a candidate and never reported missing, wherever it is declared.
C6_ModuleLocalExcludedAnywhere ==
    \A n \in Names :
        OnlyModuleLocalDefs(n)
        => (n \notin udf_implementations /\ n \notin missing_udfs)

\* C6 (amended): a declared name whose only definitions are pub(super) is
\* never a candidate and never reported missing, provided each of its
\* implementation declarations is in a file that holds such a definition.
C6_ModuleLocalExcludedSameFile ==
    \A n \in Names :
        ( /\ OnlyModuleLocalDefs(n)
          /\ \A f \in DOMAIN files :
                ImplsOf(files[f].content, n) # {}
                => HasDef(files[f].content, n, "pub(super)") )
        => (n \notin udf_implementations /\ n \notin missing_udfs)

\* a scanned file defines a name pub(super) only and declares it outside
\* comments and without marker; the run ended without the name
C6_Witness ==
    /\ Verified
    /\ \E f \in Scanned : \E n \in Names :
        \E p \in ImplsOf(files[f].content, n) :
            /\ OnlyModuleLocalDefs(n)
            /\ ~CommentExcluded(files[f].content, p)
            /\ ~MarkerAdjacent(files[f].content, n)
            /\ n \notin udf_implementations

\* a declaration of n in a scanned file with markers only two or more lines
\* above the definition, and no other filter applying, has added n
FarMarkerDoesNotExclude ==
    \A f \in Scanned : \A n \in Names :
        \A p \in ImplsOf(files[f].content, n) :
            ( /\ MarkerFarAbove(files[f].content, n)
              /\ ~CommentExcluded(files[f].content, p)
              /\ ~ModuleLocalOnly(files[f].content, n) )
            => n \in udf_implementations

\* C7 (as stated): a name with a definition that has the marker on its line
\* or on the line above is never a candidate, wherever it is declared; a
\* marker two or more lines above does not exclude it.
C7_MarkedExcludedAnywhere ==
    /\ \A n \in Names :
        (\E f \in DOMAIN files : MarkerAdjacent(files[f].content, n))
        => n \notin udf_implementations
    /\ FarMarkerDoesNotExclude

\* C7 (amended): a name is never a candidate when each of its implementation
\* declarations is in a file that holds a definition of it with the marker on
\* its line or on the line above; a marker two or more lines above does not
\* exclude it.
C7_MarkedExcludedSameFile ==
    /\ \A n \in Names :
        (\A f \in DOMAIN files :
            ImplsOf(files[f].content, n) # {}
            => MarkerAdjacent(files[f].content, n))
        => n \notin udf_implementations
    /\ FarMarkerDoesNotExclude

\* a scanned file has the marker on the line above a definition, declares the
\* name outside comments, and the run ended without the name
C7_Witness ==
    /\ Verified
    /\ \E f \in Scanned : \E n \in Names :
        \E p \in ImplsOf(files[f].content, n) :
            /\ \E m, q \in DOMAIN files[f].content :
                /\ files[f].content[m] = ALLOW
                /\ files[f].content[q].t = "struct"
                /\ files[f].content[q].name = n
                /\ LineOf(files[f].content, q) = LineOf(files[f].content, m) + 1
            /\ \A m, q \in DOMAIN files[f].content :
                (files[f].content[m] = ALLOW /\ files[f].content[q].t = "struct")
                => LineOf(files[f].content, q) # LineOf(files[f].content, m)
            /\ ~CommentExcluded(files[f].content, p)
            /\ ~ModuleLocalOnly(files[f].content, n)
            /\ n \notin udf_implementations

\* the candidate set of a traversal that visits files 1..k in that order
RECURSIVE ScanInOrder(_)
ScanInOrder(k) ==
    IF k = 0 THEN {}
    ELSE add_all(ScanInOrder(k - 1), names_found(files[k].content))

\* C8: whatever the order in which the files are visited, every name found in
\* a visited file is in the accumulating candidate set, and the candidate set
\* and the registered set a run reports are those of the traversal in
\* directory order.
C8_OrderIndependent ==
    /\ \A f \in Scanned : names_found(files[f].content) \subseteq udf_implementations
    /\ HasLine("Found UDF implementations")
           => udf_implementations = ScanInOrder(Len(files))
    /\ HasLine("Found registered UDFs") => registered_udfs = CapturedNames

\* the second file was visited before the first, and the two files yield
\* different, non-empty sets of names
C8_Witness ==
    /\ pc = "scan"
    /\ todo = {1}
    /\ Len(files) = 2
    /\ names_found(files[1].content) # {}
    /\ names_found(files[2].content) # {}
    /\ names_found(files[1].content) # names_found(files[2].content)

\* C9: in a run that reached the verdict, the missing set is the names with a
\* declaration (of either kind, in any file) that survives the three filters
\* in its own file, minus the names captured by a registration call.
C9_MissingIsDifference ==
    Verified =>
        /\ udf_implementations = SurvivingNames
        /\ registered_udfs = CapturedNames
        /\ missing_udfs = SurvivingNames \ CapturedNames

\* two files, a name that survives and is registered, another that survives
\* and is not, and one declaration filtered out
C9_Witness ==
    /\ Verified
    /\ Len(files) = 2
    /\ SurvivingNames \cap CapturedNames # {}
    /\ missing_udfs # {}
    /\ \E f \in DOMAIN files : \E n \in Names :
        \E p \in ImplsOf(files[f].content, n) :
            ModuleLocalOnly(files[f].content, n)

\* C10: in a run that reached the verdict, a name captured by a registration
\* call of either form, under any module path, is not in the missing set,
\* whichever kind of declaration made it a candidate and in however many
\* files it is declared.
C10_RegisteredByBareName ==
    Verified =>
        \A n \in Names :
            (\E i \in DOMAIN lib.content :
                Captured(lib.content[i]) /\ lib.content[i].name = n)
            => n \notin missing_udfs

\* a name declared scalar in one file and aggregate in the other, registered
\* by a single register_udaf call, and the run succeeded
C10_Witness ==
    /\ Verified
    /\ exit_code = 0
    /\ Len(files) = 2
    /\ Len(lib.content) = 1
    /\ lib.content[1].t = "register_udaf"
    /\ \E n \in udf_implementations :
        /\ lib.content[1].name = n
        /\ \E p \in DOMAIN files[1].content :
            SCALAR_UDF_PATTERN(files[1].content[p]) /\ files[1].content[p].name = n
        /\ \E p \in DOMAIN files[2].content :
            AGGREGATE_UDF_PATTERN(files[2].content[p]) /\ files[2].content[p].name = n
====
